---- MODULE Spec2Model ----
(***************************************************************************)
(* rmote: a one-way SFTP directory mirror (src/src/main.rs).               *)
(*                                                                         *)
(* The model covers App::run: the initial full sync (transfer_all), the    *)
(* ingestion thread (file_event_receiver), the Dispatcher loop             *)
(* (dispatcher / process_events) and the per-path application of an        *)
(* Intent against the remote tree (transfer_element, delete_element and    *)
(* the helpers they call).  Paths are sequences of components, as          *)
(* std::path::Path::components yields them: an absolute path starts with   *)
(* the component "/".                                                      *)
(***************************************************************************)
EXTENDS Integers, Sequences, FiniteSets, TLC

\* ------------------------------------------------------------------ bounds
\* Longest relative path (in components) of the modelled trees.
MaxDepth == 3
\* Number of local filesystem edits / watch notifications the environment makes.
MaxEdits == 3
\* Distinct file contents.
MaxContent == 2
\* Longest kind history folded by the stand-alone fold machine.
MaxKinds == 4

\* ------------------------------------------------------- program constants
\* 0o777: the permission mask of transfer_all / transfer_element.
PermMask == 511
\* 0o755: the mode of the parent directories of an uploaded file.
ParentDirMode == 493

\* --------------------------------------------------------------- universe
Names == {"a", "t"}
LocalRoot == <<"/", "r">>
RemoteRoot == <<".">>

RECURSIVE SeqsUpTo(_)
SeqsUpTo(n) ==
    IF n = 0 THEN {<<>>}
    ELSE LET S == SeqsUpTo(n - 1)
         IN S \cup {Append(s, x) : s \in {t \in S : Len(t) = n - 1}, x \in Names}

RelAll == SeqsUpTo(MaxDepth)
RelPaths == RelAll \ {<<>>}
LocalPaths == {LocalRoot \o s : s \in RelAll}
RemotePaths == {RemoteRoot \o s : s \in RelAll}

\* st_mode values of local entries: regular files 0o100644 and 0o100600,
\* directories 0o40755.
FileModes == {33188, 33152}
DirModes == {16877}

Absent == [kind |-> "none", content |-> 0, mode |-> 0]
DirNode(m) == [kind |-> "dir", content |-> 0, mode |-> m]
FileNode(c, m) == [kind |-> "file", content |-> c, mode |-> m]

\* ------------------------------------------------------------------ paths
\* Path::starts_with: a component-wise prefix.
starts_with(p, pre) == Len(pre) <= Len(p) /\ SubSeq(p, 1, Len(pre)) = pre
\* Path::join: an absolute argument replaces the base.
join(base, p) == IF Len(p) > 0 /\ p[1] = "/" THEN p ELSE base \o p
\* Path::parent
Parent(p) == SubSeq(p, 1, Len(p) - 1)
\* Path::file_name as a set: empty for a path ending in "/", "." or "..".
file_name(p) ==
    IF Len(p) > 0 /\ p[Len(p)] \notin {"/", ".", ".."} THEN {p[Len(p)]} ELSE {}

VARIABLES
    local,      \* the local tree: LocalPaths -> node
    remote,     \* the remote tree: RemotePaths -> node
    blacklist,  \* App.blacklist: the configured entries, as paths
    faulty,     \* remote paths on which the server refuses mkdir and create
    pc,         \* run's position: "sync", "start", "loop", "apply", "returned"
    queue,      \* transfer_all: the work queue of local directories
    entries,    \* transfer_all: entries of the directory being read, still to do
    watching,   \* the watch subscription is live (its w_tx exists)
    wq,         \* the channel watcher -> file_event_receiver
    ingest,     \* file_event_receiver: "idle", "running", "done"
    mq,         \* the hand-off channel file_event_receiver -> dispatcher
    events,     \* dispatcher's pending event log
    per_path,   \* process_events: path -> kinds, for the paths still to apply
    outcome,    \* how run ended: "none", "ok", "sync_err", "dispatch_err"
    ops,        \* remote operations issued by the full sync, or by the last Intent
    applied,    \* history: the Intents applied so far, in order
    emitted,    \* history: the notifications the watch primitive emitted
    edits,      \* number of environment steps taken
    window,     \* history: "none", "open" (no tick since the first emission), "split"
    fk,         \* the fold loop of process_events on one history: its locals
    fkinds,     \* the history the fold loop runs on
    last_tick   \* dispatcher's last_tick, as the parity of the ticks taken

vars == <<local, remote, blacklist, faulty, pc, queue, entries, watching, wq,
          ingest, mq, events, per_path, outcome, ops, applied, emitted,
          edits, window, fk, fkinds, last_tick>>

\* -------------------------------------------------------------- PathFilter
blacklist_names == UNION {file_name(blacklist[i]) : i \in 1..Len(blacklist)}

is_blacklisted(path) ==
    \/ file_name(path) \cap blacklist_names # {}
    \/ \E i \in 1..Len(blacklist) :
          \/ starts_with(path, blacklist[i])
          \/ starts_with(path, join(LocalRoot, blacklist[i]))

\* rel: canonicalize (the identity on the modelled trees, which hold no
\* symbolic links), then strip_prefix(local_root).
rel(path) ==
    IF starts_with(path, LocalRoot)
    THEN [ok |-> TRUE, val |-> SubSeq(path, Len(LocalRoot) + 1, Len(path))]
    ELSE [ok |-> FALSE, val |-> <<>>]

\* ------------------------------------------------------------ EventCoalescer
Kinds == {"Create", "Modify", "Remove", "Other"}

KindAction(k) ==
    CASE k \in {"Create", "Modify"} -> "Transfer"
      [] k = "Remove" -> "Delete"
      [] OTHER -> "None"

\* One iteration of `for k in kinds`: f holds the locals actions and last.
\* A fold that records a Transfer only while nothing has been recorded yet, so
\* that a path removed and then recreated stays deleted.
FoldStepFirstOnly(f, k) ==
    LET action == KindAction(k)
    IN [actions |->
            CASE action = "Transfer" ->
                    IF f.actions = <<>> THEN <<"Transfer">> ELSE f.actions
              [] action = "Delete" -> <<"Delete">>
              [] OTHER -> f.actions,
        last |-> action]

FoldStep(f, k) ==
    LET action == KindAction(k)
    IN [actions |->
            CASE action = "Transfer" ->
                    IF f.last # "Transfer" THEN Append(f.actions, "Transfer")
                    ELSE f.actions
              [] action = "Delete" -> <<"Delete">>
              [] OTHER -> f.actions,
        last |-> action]

FoldInit == [actions |-> <<>>, last |-> "None"]

RECURSIVE FoldFrom(_, _, _)
FoldFrom(f, kinds, i) ==
    IF i > Len(kinds) THEN f ELSE FoldFrom(FoldStep(f, kinds[i]), kinds, i + 1)

\* actions.last().copied(): "Nothing" stands for Option::None.
LastAction(actions) == IF Len(actions) = 0 THEN "Nothing" ELSE actions[Len(actions)]

final_action(kinds) == LastAction(FoldFrom(FoldInit, kinds, 1).actions)

\* ------------------------------------------------- the remote store (SFTP)
\* A session state st is [fs, log]: the remote tree and the operations issued.
Logged(st, op, p) == [fs |-> st.fs, log |-> st.log \cup {[op |-> op, path |-> p]}]

Exists(fs, p) == p \in DOMAIN fs /\ fs[p].kind # "none"
IsDir(fs, p) == p \in DOMAIN fs /\ fs[p].kind = "dir"
Kids(fs, p) ==
    {q \in DOMAIN fs : Len(q) = Len(p) + 1 /\ starts_with(q, p) /\ fs[q].kind # "none"}

SftpMkdir(st, p, mode) ==
    LET s1 == Logged(st, "mkdir", p)
        ok == /\ p \in DOMAIN st.fs
              /\ ~Exists(st.fs, p)
              /\ IsDir(st.fs, Parent(p))
              /\ p \notin faulty
    IN IF ok THEN [ok |-> TRUE, st |-> [s1 EXCEPT !.fs[p] = DirNode(mode)]]
       ELSE [ok |-> FALSE, st |-> s1]

SftpStat(st, p) ==
    [ok |-> Exists(st.fs, p),
     is_dir |-> IsDir(st.fs, p),
     st |-> Logged(st, "stat", p)]

SftpUnlink(st, p) ==
    LET s1 == Logged(st, "unlink", p)
    IN IF p \in DOMAIN st.fs /\ st.fs[p].kind = "file"
       THEN [ok |-> TRUE, st |-> [s1 EXCEPT !.fs[p] = Absent]]
       ELSE [ok |-> FALSE, st |-> s1]

SftpRmdir(st, p) ==
    LET s1 == Logged(st, "rmdir", p)
    IN IF IsDir(st.fs, p) /\ Kids(st.fs, p) = {}
       THEN [ok |-> TRUE, st |-> [s1 EXCEPT !.fs[p] = Absent]]
       ELSE [ok |-> FALSE, st |-> s1]

SftpReaddir(st, p) ==
    [ok |-> IsDir(st.fs, p),
     kids |-> IF IsDir(st.fs, p) THEN Kids(st.fs, p) ELSE {},
     st |-> Logged(st, "readdir", p)]

\* Sftp::create: open for writing, creating or truncating; a new file gets 0o644.
SftpCreate(st, p) ==
    LET s1 == Logged(st, "create", p)
        ok == /\ p \in DOMAIN st.fs
              /\ st.fs[p].kind # "dir"
              /\ IsDir(st.fs, Parent(p))
              /\ p \notin faulty
    IN IF ok
       THEN [ok |-> TRUE,
             st |-> [s1 EXCEPT !.fs[p] =
                        FileNode(0, IF st.fs[p].kind = "file" THEN st.fs[p].mode ELSE 420)]]
       ELSE [ok |-> FALSE, st |-> s1]

\* io::copy into the open remote file.
SftpWrite(st, p, c) == [Logged(st, "write", p) EXCEPT !.fs[p].content = c]

SftpSetstat(st, p, perm) ==
    LET s1 == Logged(st, "setstat", p)
    IN IF Exists(st.fs, p) THEN [s1 EXCEPT !.fs[p].mode = perm] ELSE s1

\* --------------------------------------------------------------- RemoteTree
remote_exists(st, p) == LET r == SftpStat(st, p) IN [val |-> r.ok, st |-> r.st]

remote_is_dir(st, p) ==
    LET r == SftpStat(st, p) IN [val |-> r.ok /\ r.is_dir, st |-> r.st]

\* ensure_remote_dir: mkdir for every prefix of r, first to last; k is the
\* number of components already in `built`.
\* A walk that goes on to the next component whatever mkdir answered.
RECURSIVE EnsureFromLenient(_, _, _, _)
EnsureFromLenient(st, r, mode, k) ==
    IF k > Len(r) THEN [ok |-> TRUE, st |-> st]
    ELSE EnsureFromLenient(SftpMkdir(st, SubSeq(r, 1, k), mode).st, r, mode, k + 1)

RECURSIVE EnsureFrom(_, _, _, _)
EnsureFrom(st, r, mode, k) ==
    IF k > Len(r) THEN [ok |-> TRUE, st |-> st]
    ELSE LET built == SubSeq(r, 1, k)
             m == SftpMkdir(st, built, mode)
         IN IF m.ok THEN EnsureFrom(m.st, r, mode, k + 1)
            ELSE LET e == remote_exists(m.st, built)
                 IN IF ~e.val THEN [ok |-> FALSE, st |-> e.st]
                    ELSE EnsureFrom(e.st, r, mode, k + 1)

ensure_remote_dir(st, r, mode) == EnsureFrom(st, r, mode, 1)

copy_file_to_remote(st, lp, rp, mode) ==
    LET c == SftpCreate(st, rp)
    IN IF ~c.ok THEN [ok |-> FALSE, st |-> c.st]
       ELSE [ok |-> TRUE,
             st |-> SftpSetstat(SftpWrite(c.st, rp, local[lp].content), rp, mode)]

\* remote_remove_dir_recursive: the children in readdir's order (any order
\* gives the same tree and the same set of operations, as no error escapes).
\* A removal that unlinks the entries of a directory without descending into
\* its subdirectories.
RECURSIVE UnlinkAll(_, _)
UnlinkAll(st, kids) ==
    IF kids = {} THEN st
    ELSE LET child == CHOOSE q \in kids : TRUE
         IN UnlinkAll(SftpUnlink(st, child).st, kids \ {child})

remote_remove_dir_shallow(st, p) ==
    LET d == SftpReaddir(st, p)
    IN IF ~d.ok THEN SftpRmdir(d.st, p).st
       ELSE SftpRmdir(UnlinkAll(d.st, d.kids), p).st

RECURSIVE remote_remove_dir_recursive(_, _)
RECURSIVE RemoveKids(_, _)
RemoveKids(st, kids) ==
    IF kids = {} THEN st
    ELSE LET child == CHOOSE q \in kids : TRUE
             s1 == IF st.fs[child].kind = "dir"
                   THEN remote_remove_dir_recursive(st, child)
                   ELSE SftpUnlink(st, child).st
         IN RemoveKids(s1, kids \ {child})

remote_remove_dir_recursive(st, p) ==
    LET d == SftpReaddir(st, p)
    IN IF ~d.ok THEN SftpRmdir(d.st, p).st
       ELSE SftpRmdir(RemoveKids(d.st, d.kids), p).st

\* ---------------------------------------------------- applying an Intent
LocalMeta(path) ==
    IF path \in DOMAIN local /\ local[path].kind # "none"
    THEN [ok |-> TRUE, node |-> local[path]]
    ELSE [ok |-> FALSE, node |-> Absent]

\* A delete that reports an error when there is nothing to remove.
delete_element_strict(st, path) ==
    IF is_blacklisted(path) THEN [ok |-> TRUE, st |-> st]
    ELSE LET r == rel(path)
         IN IF ~r.ok THEN [ok |-> TRUE, st |-> st]
            ELSE LET rp == join(RemoteRoot, r.val)
                     u == SftpUnlink(st, rp)
                 IN IF u.ok THEN [ok |-> TRUE, st |-> u.st]
                    ELSE LET d == remote_is_dir(u.st, rp)
                         IN IF d.val
                            THEN [ok |-> TRUE, st |-> remote_remove_dir_recursive(d.st, rp)]
                            ELSE [ok |-> FALSE, st |-> d.st]

delete_element(st, path) ==
    IF is_blacklisted(path) THEN [ok |-> TRUE, st |-> st]
    ELSE LET r == rel(path)
         IN IF ~r.ok THEN [ok |-> TRUE, st |-> st]
            ELSE LET rp == join(RemoteRoot, r.val)
                     u == SftpUnlink(st, rp)
                 IN IF u.ok THEN [ok |-> TRUE, st |-> u.st]
                    ELSE LET d == remote_is_dir(u.st, rp)
                         IN IF d.val
                            THEN [ok |-> TRUE, st |-> remote_remove_dir_recursive(d.st, rp)]
                            ELSE [ok |-> TRUE, st |-> d.st]

\* transfer_element once the local stat has succeeded.
TransferPresent(st, path, node) ==
    LET r == rel(path)
    IN IF ~r.ok THEN [ok |-> FALSE, st |-> st]
       ELSE LET rp == join(RemoteRoot, r.val)
                mode == node.mode % (PermMask + 1)
            IN CASE node.kind = "dir" -> ensure_remote_dir(st, rp, mode)
                 [] node.kind = "file" ->
                       LET e == ensure_remote_dir(st, Parent(rp), ParentDirMode)
                       IN IF ~e.ok THEN e
                          ELSE copy_file_to_remote(e.st, path, rp, mode)
                 [] OTHER -> [ok |-> TRUE, st |-> st]

\* A transfer that reports the failed local stat instead of deleting.
transfer_element_strict(st, path) ==
    IF is_blacklisted(path) THEN [ok |-> TRUE, st |-> st]
    ELSE LET meta == LocalMeta(path)
         IN IF ~meta.ok THEN [ok |-> FALSE, st |-> st]
            ELSE TransferPresent(st, path, meta.node)

transfer_element(st, path) ==
    IF is_blacklisted(path) THEN [ok |-> TRUE, st |-> st]
    ELSE LET meta == LocalMeta(path)
         IN IF ~meta.ok THEN delete_element(st, path)
            ELSE TransferPresent(st, path, meta.node)

\* ------------------------------------------------------------ initial states
EmptyLocal == [p \in LocalPaths |-> IF p = LocalRoot THEN DirNode(16877) ELSE Absent]
\* App::new has created the remote root.
EmptyRemote == [p \in RemotePaths |-> IF p = RemoteRoot THEN DirNode(ParentDirMode) ELSE Absent]

\* ------------------------------------------------------------- transfer_all
SyncStart ==
    /\ pc = "init"
    /\ pc' = "sync"
    /\ queue' = <<LocalRoot>>
    /\ UNCHANGED <<local, remote, blacklist, faulty, entries, watching, wq, ingest,
                   mq, events, per_path, outcome, ops, applied, emitted, edits,
                   window, fk, fkinds, last_tick>>

\* A run that logs the error of transfer_all and goes on to the watcher.
SyncFailLogged ==
    /\ pc' = "start"
    /\ outcome' = "sync_err"
    /\ queue' = <<>>
    /\ entries' = {}

\* transfer_all returns the error and run returns it (line 147).
SyncFail ==
    /\ pc' = "returned"
    /\ outcome' = "sync_err"
    /\ queue' = <<>>
    /\ entries' = {}

\* while let Some(dir) = queue.pop_front() { for entry in fs::read_dir(&dir)? ...
SyncReadDir ==
    /\ pc = "sync" /\ entries = {} /\ queue # <<>>
    /\ LET dir == Head(queue)
       IN IF LocalMeta(dir).ok /\ local[dir].kind = "dir"
          THEN /\ entries' = Kids(local, dir)
               /\ queue' = Tail(queue)
               /\ UNCHANGED <<pc, outcome>>
          ELSE SyncFail
    /\ UNCHANGED <<local, remote, blacklist, faulty, watching, wq, ingest, mq, events,
                   per_path, ops, applied, emitted, edits, window, fk, fkinds, last_tick>>

\* The body of the for loop, for one entry of the directory.
\* One entry of transfer_all's walk once it has passed the blacklist test.
SyncEntryCopy(st, path) ==
         LET r == rel(path)
             meta == LocalMeta(path)
         IN IF ~r.ok \/ ~meta.ok THEN [ok |-> FALSE, st |-> st, push |-> FALSE]
            ELSE LET rp == join(RemoteRoot, r.val)
                     mode == meta.node.mode % (PermMask + 1)
                 IN CASE meta.node.kind = "dir" ->
                            LET e == ensure_remote_dir(st, rp, mode)
                            IN [ok |-> e.ok, st |-> e.st, push |-> e.ok]
                      [] meta.node.kind = "file" ->
                            LET e == ensure_remote_dir(st, Parent(rp), ParentDirMode)
                                c == IF e.ok THEN copy_file_to_remote(e.st, path, rp, mode)
                                     ELSE e
                            IN [ok |-> c.ok, st |-> c.st, push |-> FALSE]
                      [] OTHER -> [ok |-> TRUE, st |-> st, push |-> FALSE]

\* A walk that mirrors every entry, blacklisted or not.
SyncEntryResultUnfiltered(st, path) == SyncEntryCopy(st, path)

SyncEntryResult(st, path) ==
    IF is_blacklisted(path) THEN [ok |-> TRUE, st |-> st, push |-> FALSE]
    ELSE SyncEntryCopy(st, path)

SyncEntry ==
    /\ pc = "sync"
    /\ \E path \in entries :
         LET res == SyncEntryResult([fs |-> remote, log |-> ops], path)
         IN /\ remote' = res.st.fs
            /\ ops' = res.st.log
            /\ IF res.ok
               THEN /\ entries' = entries \ {path}
                    /\ queue' = IF res.push THEN Append(queue, path) ELSE queue
                    /\ UNCHANGED <<pc, outcome>>
               ELSE SyncFail
    /\ UNCHANGED <<local, blacklist, faulty, watching, wq, ingest, mq, events,
                   per_path, applied, emitted, edits, window, fk, fkinds, last_tick>>

\* transfer_all returns Ok(()).
SyncDone ==
    /\ pc = "sync" /\ entries = {} /\ queue = <<>>
    /\ pc' = "start"
    /\ UNCHANGED <<local, remote, blacklist, faulty, queue, entries, watching, wq,
                   ingest, mq, events, per_path, outcome, ops, applied, emitted,
                   edits, window, fk, fkinds, last_tick>>

\* run, lines 151-169: the channels, the watcher and the ingestion thread.
StartWatch ==
    /\ pc = "start"
    /\ pc' = "loop"
    /\ watching' = TRUE
    /\ ingest' = "running"
    /\ UNCHANGED <<local, remote, blacklist, faulty, queue, entries, wq, mq, events,
                   per_path, outcome, ops, applied, emitted, edits, window, fk, fkinds, last_tick>>

\* initial == false: run goes straight to the watcher.
SkipSync ==
    /\ pc = "init"
    /\ pc' = "start"
    /\ UNCHANGED <<local, remote, blacklist, faulty, queue, entries, watching, wq,
                   ingest, mq, events, per_path, outcome, ops, applied, emitted,
                   edits, window, fk, fkinds, last_tick>>

\* ------------------------------------------------------ file_event_receiver
\* What m_tx.send puts on the hand-off channel: the event, stamped (for the
\* record only) with the tick whose reconciliation was running when it was
\* sent, as the value of last_tick, or with -1 when none was.
Sent(ev) ==
    [kind |-> ev.kind, paths |-> ev.paths,
     tick |-> IF pc = "apply" THEN last_tick ELSE -1]

\* An ingestion thread that removes the remote counterpart of a removed path
\* itself, on the session the Dispatcher uses, before handing the event on.
IngestStepDirect ==
    /\ ingest = "running" /\ wq # <<>>
    /\ LET res == Head(wq)
           st == [fs |-> remote, log |-> ops]
           r == IF res.kind = "Remove" THEN delete_element(st, res.paths[1]).st ELSE st
       IN /\ wq' = Tail(wq)
          /\ remote' = r.fs
          /\ ops' = r.log
          /\ IF res.kind \in {"Create", "Modify", "Remove"} /\ pc # "returned"
             THEN mq' = Append(mq, Sent(res))
             ELSE mq' = mq
    /\ UNCHANGED <<local, blacklist, faulty, pc, queue, entries, watching,
                   ingest, events, per_path, outcome, applied, emitted, edits,
                   window, fk, fkinds, last_tick>>

\* One iteration of `for res in w_rx`: an item is a watch error or an event.
IngestStep ==
    /\ ingest = "running" /\ wq # <<>>
    /\ LET res == Head(wq)
       IN /\ wq' = Tail(wq)
          /\ IF res.kind \in {"Create", "Modify", "Remove"} /\ pc # "returned"
             THEN mq' = Append(mq, Sent(res))
             ELSE mq' = mq
    /\ UNCHANGED <<local, remote, blacklist, faulty, pc, queue, entries, watching,
                   ingest, events, per_path, outcome, ops, applied, emitted, edits,
                   window, fk, fkinds, last_tick>>

\* The iteration over w_rx ends once the stream is closed and drained; the
\* thread's clone of m_tx is dropped.
IngestReturn ==
    /\ ingest = "running" /\ wq = <<>> /\ ~watching
    /\ ingest' = "done"
    /\ UNCHANGED <<local, remote, blacklist, faulty, pc, queue, entries, watching, wq,
                   mq, events, per_path, outcome, ops, applied, emitted, edits,
                   window, fk, fkinds, last_tick>>

\* ---------------------------------------------------------------- dispatcher
\* The Senders of the hand-off channel still alive: m_tx, a local of run, and
\* its clone tx, owned by the ingestion thread.
MSenders ==
    (IF pc # "returned" THEN {"m_tx"} ELSE {})
        \cup (IF ingest = "running" THEN {"tx"} ELSE {})

try_recv ==
    IF mq # <<>> THEN "Ok"
    ELSE IF MSenders = {} THEN "Disconnected" ELSE "Empty"

\* A fan-out that puts each kind in front of the kinds already recorded.
RECURSIVE PushPathsFront(_, _, _, _)
PushPathsFront(map, paths, kind, i) ==
    IF i > Len(paths) THEN map
    ELSE LET full == paths[i]
             old == IF full \in DOMAIN map THEN map[full] ELSE <<>>
             new == [q \in DOMAIN map \cup {full} |->
                        IF q = full THEN <<kind>> \o old ELSE map[q]]
         IN PushPathsFront(new, paths, kind, i + 1)

\* process_events, lines 237-245: the fan-out of the pending log.
RECURSIVE PushPaths(_, _, _, _)
PushPaths(map, paths, kind, i) ==
    IF i > Len(paths) THEN map
    ELSE LET full == paths[i]
             old == IF full \in DOMAIN map THEN map[full] ELSE <<>>
             new == [q \in DOMAIN map \cup {full} |->
                        IF q = full THEN Append(old, kind) ELSE map[q]]
         IN PushPaths(new, paths, kind, i + 1)

RECURSIVE Drain(_, _)
Drain(map, evs) ==
    IF evs = <<>> THEN map
    ELSE Drain(PushPaths(map, Head(evs).paths, Head(evs).kind, 1), Tail(evs))

EmptyMap == [q \in {} |-> <<>>]

\* One iteration of the loop of dispatcher: try_recv, then the debounce timer
\* (elapsed: whether last_tick.elapsed() >= debounce), then the start of
\* process_events when it fired.
DispatcherIter ==
    /\ pc = "loop"
    /\ \E elapsed \in BOOLEAN :
         LET r == try_recv
             evs == IF r = "Ok" THEN Append(events, Head(mq)) ELSE events
         IN IF r = "Disconnected"
            THEN /\ pc' = "returned"
                 /\ outcome' = "ok"
                 /\ UNCHANGED <<mq, events, per_path, window, last_tick>>
            ELSE /\ mq' = IF r = "Ok" THEN Tail(mq) ELSE mq
                 /\ outcome' = outcome
                 /\ IF elapsed
                    THEN /\ last_tick' = 1 - last_tick
                         /\ events' = <<>>
                         /\ per_path' = Drain(EmptyMap, evs)
                         /\ pc' = IF evs = <<>> THEN "loop" ELSE "apply"
                         /\ window' = IF window = "open" THEN "ticked" ELSE window
                    ELSE /\ events' = evs
                         /\ UNCHANGED <<per_path, pc, window, last_tick>>
    /\ UNCHANGED <<local, remote, blacklist, faulty, queue, entries, watching, wq,
                   ingest, ops, applied, emitted, edits, fk, fkinds>>

\* process_events, lines 247-283, for one (path, kinds) of per_path.
ApplyResult(st, path, kinds) ==
    IF is_blacklisted(path) THEN [ok |-> TRUE, st |-> st, intent |-> "Skipped"]
    ELSE LET final == final_action(kinds)
             r == CASE final = "Transfer" -> transfer_element(st, path)
                    [] final = "Delete" -> delete_element(st, path)
                    [] OTHER -> [ok |-> TRUE, st |-> st]
         IN [ok |-> r.ok, st |-> r.st, intent |-> final]

\* The entries of a tree, as (path, node) pairs.
Image(fs) == {<<q, fs[q]>> : q \in {x \in DOMAIN fs : fs[x].kind # "none"}}

Rest(map, path) == [q \in DOMAIN map \ {path} |-> map[q]]

\* The for loop takes the paths in the HashMap's order, which is any order;
\* an Err leaves process_events and, through `?`, dispatcher.
ApplyPath ==
    /\ pc = "apply"
    /\ \E path \in DOMAIN per_path :
         LET res == ApplyResult([fs |-> remote, log |-> {}], path, per_path[path])
             rest == Rest(per_path, path)
         IN /\ remote' = res.st.fs
            /\ ops' = res.st.log
            /\ applied' = Append(applied, [path |-> path, intent |-> res.intent,
                                           ok |-> res.ok, kinds |-> per_path[path],
                                           rest |-> DOMAIN rest, before |-> Image(remote)])
            /\ IF res.ok
               THEN /\ per_path' = rest
                    /\ pc' = IF DOMAIN rest = {} THEN "loop" ELSE "apply"
                    /\ outcome' = outcome
               ELSE /\ per_path' = EmptyMap
                    /\ pc' = "returned"
                    /\ outcome' = "dispatch_err"
    /\ UNCHANGED <<local, blacklist, faulty, queue, entries, watching, wq, ingest,
                   mq, events, emitted, edits, window, fk, fkinds, last_tick>>

\* -------------------------------------------------------------- environment
\* The watch primitive hands a notification to the closure of run, which
\* sends it on w_tx; before the watcher exists nothing is recorded.
Emit(ev) ==
    IF watching
    THEN /\ wq' = Append(wq, ev)
         /\ emitted' = Append(emitted, ev)
         /\ window' = CASE window = "none" -> "open"
                        [] window = "ticked" -> "split"
                        [] OTHER -> window
    ELSE UNCHANGED <<wq, emitted, window>>

Event(kind, path) == [kind |-> kind, paths |-> <<path>>]

\* The environment acts while the Dispatcher runs.
CanEdit == pc \in {"loop", "apply"} /\ edits < MaxEdits

LocalCreate ==
    /\ CanEdit
    /\ \E p \in LocalPaths \ {LocalRoot} :
         /\ local[p].kind = "none" /\ local[Parent(p)].kind = "dir"
         /\ local' = [local EXCEPT ![p] = FileNode(1, 33188)]
         /\ Emit(Event("Create", p))
    /\ edits' = edits + 1
    /\ UNCHANGED <<remote, blacklist, faulty, pc, queue, entries, watching, ingest,
                   mq, events, per_path, outcome, ops, applied, fk, fkinds, last_tick>>

LocalMkdir ==
    /\ CanEdit
    /\ \E p \in LocalPaths \ {LocalRoot}, m \in DirModes :
         /\ local[p].kind = "none" /\ local[Parent(p)].kind = "dir"
         /\ local' = [local EXCEPT ![p] = DirNode(m)]
         /\ Emit(Event("Create", p))
    /\ edits' = edits + 1
    /\ UNCHANGED <<remote, blacklist, faulty, pc, queue, entries, watching, ingest,
                   mq, events, per_path, outcome, ops, applied, fk, fkinds, last_tick>>

LocalModify ==
    /\ CanEdit
    /\ \E p \in LocalPaths, c \in 1..MaxContent :
         /\ local[p].kind = "file" /\ local[p].content # c
         /\ local' = [local EXCEPT ![p].content = c]
         /\ Emit(Event("Modify", p))
    /\ edits' = edits + 1
    /\ UNCHANGED <<remote, blacklist, faulty, pc, queue, entries, watching, ingest,
                   mq, events, per_path, outcome, ops, applied, fk, fkinds, last_tick>>

\* unlink of a file, rmdir of an empty directory.
LocalRemove ==
    /\ CanEdit
    /\ \E p \in LocalPaths \ {LocalRoot} :
         /\ local[p].kind # "none" /\ Kids(local, p) = {}
         /\ local' = [local EXCEPT ![p] = Absent]
         /\ Emit(Event("Remove", p))
    /\ edits' = edits + 1
    /\ UNCHANGED <<remote, blacklist, faulty, pc, queue, entries, watching, ingest,
                   mq, events, per_path, outcome, ops, applied, fk, fkinds, last_tick>>

\* An edit made while transfer_all runs or has just returned: run creates the
\* watcher only afterwards (line 154), so the watch primitive reports nothing.
EarlyEdit ==
    /\ pc \in {"sync", "start"} /\ edits < MaxEdits
    /\ \/ \E p \in LocalPaths \ {LocalRoot} :
             /\ local[p].kind = "none" /\ local[Parent(p)].kind = "dir"
             /\ local' = [local EXCEPT ![p] = FileNode(1, 33188)]
             /\ Emit(Event("Create", p))
       \/ \E p \in LocalPaths, c \in 1..MaxContent :
             /\ local[p].kind = "file" /\ local[p].content # c
             /\ local' = [local EXCEPT ![p].content = c]
             /\ Emit(Event("Modify", p))
       \/ \E p \in LocalPaths \ {LocalRoot} :
             /\ local[p].kind # "none" /\ Kids(local, p) = {}
             /\ local' = [local EXCEPT ![p] = Absent]
             /\ Emit(Event("Remove", p))
    /\ edits' = edits + 1
    /\ UNCHANGED <<remote, blacklist, faulty, pc, queue, entries, watching, ingest,
                   mq, events, per_path, outcome, ops, applied, fk, fkinds, last_tick>>

\* A notification of no interest (an access), or a watch error.
WatchNoise ==
    /\ CanEdit /\ watching
    /\ \/ \E p \in LocalPaths : local[p].kind = "file" /\ Emit(Event("Other", p))
       \/ Emit([kind |-> "Error", paths |-> <<>>])
    /\ edits' = edits + 1
    /\ UNCHANGED <<local, remote, blacklist, faulty, pc, queue, entries, watching,
                   ingest, mq, events, per_path, outcome, ops, applied, fk, fkinds, last_tick>>

\* The notification stream ends: the watch primitive drops its handler.
WatchClose ==
    /\ watching /\ pc # "returned"
    /\ watching' = FALSE
    /\ UNCHANGED <<local, remote, blacklist, faulty, pc, queue, entries, wq, ingest,
                   mq, events, per_path, outcome, ops, applied, emitted, edits,
                   window, fk, fkinds, last_tick>>

\* ------------------------------------------------------------ the fold loop
\* process_events, lines 252-276, run on the history fkinds one kind at a time.
FoldIdle == [i |-> 1, actions |-> <<>>, last |-> "None", final |-> "Pending"]

FoldLoop ==
    /\ fk.final = "Pending" /\ fk.i <= Len(fkinds)
    /\ LET f == FoldStep([actions |-> fk.actions, last |-> fk.last], fkinds[fk.i])
       IN fk' = [i |-> fk.i + 1, actions |-> f.actions, last |-> f.last,
                 final |-> "Pending"]
    /\ UNCHANGED <<local, remote, blacklist, faulty, pc, queue, entries, watching, wq,
                   ingest, mq, events, per_path, outcome, ops, applied, emitted,
                   edits, window, fkinds, last_tick>>

FoldEnd ==
    /\ fk.final = "Pending" /\ fk.i > Len(fkinds)
    /\ fk' = [fk EXCEPT !.final = LastAction(fk.actions)]
    /\ UNCHANGED <<local, remote, blacklist, faulty, pc, queue, entries, watching, wq,
                   ingest, mq, events, per_path, outcome, ops, applied, emitted,
                   edits, window, fkinds, last_tick>>

\* ------------------------------------------------------------ specifications
\* Trees of at most n entries below the root `root` of the tree `empty`.
Grow(fs, nodes, root) ==
    {[fs EXCEPT ![p] = n] :
        p \in {q \in DOMAIN fs \ {root} : fs[q].kind = "none" /\ fs[Parent(q)].kind = "dir"},
        n \in nodes}

RECURSIVE TreesUpTo(_, _, _, _)
TreesUpTo(n, nodes, empty, root) ==
    IF n = 0 THEN {empty}
    ELSE LET S == TreesUpTo(n - 1, nodes, empty, root)
         IN S \cup UNION {Grow(fs, nodes, root) : fs \in S}

\* Entries per tree: of the trees the full sync and the remote side start from,
\* of the local trees an Intent is applied against, of the trees the watched
\* run starts from.
MaxNodes == 3
MaxInitNodes == 2
MaxSeedNodes == 1

\* A fifo stands for the entries that are neither directories nor regular files.
LocalNodes ==
    {DirNode(m) : m \in DirModes} \cup {FileNode(1, m) : m \in FileModes}
        \cup {[kind |-> "other", content |-> 0, mode |-> 4516]}
SeedNodes == {DirNode(m) : m \in DirModes} \cup {FileNode(1, 33152)}
RemoteNodes == {DirNode(ParentDirMode), FileNode(MaxContent, 420)}

LocalTrees(n) == TreesUpTo(n, LocalNodes, EmptyLocal, LocalRoot)
RemoteTrees(n) == TreesUpTo(n, RemoteNodes, EmptyRemote, RemoteRoot)

Blacklists == {<<>>, << <<"t">> >>, << <<"/", "r", "a", "t">> >>}
Faults == {{}, {RemoteRoot \o <<"a">>}}

Idle ==
    /\ queue = <<>>
    /\ entries = {}
    /\ wq = <<>>
    /\ mq = <<>>
    /\ events = <<>>
    /\ outcome = "none"
    /\ ops = {}
    /\ applied = <<>>
    /\ emitted = <<>>
    /\ edits = 0
    /\ window = "none"
    /\ last_tick = 0

\* The watched run: a full sync of a small tree, then the Dispatcher and the
\* ingestion thread against an environment that edits and notifies.
Init ==
    /\ local \in TreesUpTo(MaxSeedNodes, SeedNodes, EmptyLocal, LocalRoot)
    /\ remote = EmptyRemote
    /\ blacklist \in {<<>>, << <<"t">> >>}
    /\ faulty = {}
    /\ pc = "init"
    /\ watching = FALSE
    /\ ingest = "idle"
    /\ per_path = EmptyMap
    /\ Idle
    /\ fk = FoldIdle
    /\ fkinds = <<>>

Next ==
    \/ SyncStart \/ SyncReadDir \/ SyncEntry \/ SyncDone \/ StartWatch
    \/ IngestStep
    \/ DispatcherIter \/ ApplyPath
    \/ LocalCreate \/ LocalMkdir \/ LocalModify \/ LocalRemove
    \/ WatchNoise

Spec == Init /\ [][Next]_vars

\* The full sync alone, of every bounded static tree.
InitSync ==
    /\ local \in LocalTrees(MaxNodes)
    /\ remote = EmptyRemote
    /\ blacklist \in Blacklists
    /\ faulty \in Faults
    /\ pc = "init"
    /\ watching = FALSE
    /\ ingest = "idle"
    /\ per_path = EmptyMap
    /\ Idle
    /\ fk = FoldIdle
    /\ fkinds = <<>>

NextSync == SyncStart \/ SyncReadDir \/ SyncEntry \/ SyncDone

SpecSync == InitSync /\ [][NextSync]_vars

\* One Intent applied by process_events, for every bounded local tree, remote
\* tree (the remote directory may hold anything) and history of one path.
Histories == {<<"Create">>, <<"Remove">>}

InitApply ==
    /\ local \in LocalTrees(MaxInitNodes)
    /\ remote \in RemoteTrees(MaxNodes)
    /\ blacklist \in Blacklists
    /\ faulty = {}
    /\ pc = "apply"
    /\ watching = TRUE
    /\ ingest = "running"
    /\ \E p \in LocalPaths \ {LocalRoot}, h \in Histories :
          per_path = [q \in {p} |-> h]
    /\ Idle
    /\ fk = FoldIdle
    /\ fkinds = <<>>

NextApply == ApplyPath

SpecApply == InitApply /\ [][NextApply]_vars

\* One tick of process_events that holds a path outside the local root: the
\* target, as canonicalize (line 242) resolves it, of a symbolic link in the
\* tree.  The target may be gone again when its Intent is applied.
OutsidePath == <<"/", "o">>

InitOutside ==
    /\ \E t \in LocalTrees(MaxSeedNodes), n \in {Absent, FileNode(1, 33188)} :
          local = t @@ (OutsidePath :> n)
    /\ remote \in RemoteTrees(MaxInitNodes)
    /\ blacklist \in Blacklists
    /\ faulty = {}
    /\ pc = "apply"
    /\ watching = TRUE
    /\ ingest = "running"
    /\ \E h \in Histories, g \in Histories, q \in {LocalRoot \o <<x>> : x \in Names} :
          per_path \in {(OutsidePath :> h), (OutsidePath :> h) @@ (q :> g)}
    /\ Idle
    /\ fk = FoldIdle
    /\ fkinds = <<>>

NextOutside == ApplyPath

SpecOutside == InitOutside /\ [][NextOutside]_vars

\* ensure_remote_dir alone: a Transfer applied to a local directory is one
\* call of it (line 305), here on every bounded remote tree, with and without
\* a path on which the server refuses mkdir.
DirTrees == TreesUpTo(MaxNodes, {DirNode(m) : m \in DirModes}, EmptyLocal, LocalRoot)

InitEnsure ==
    /\ local \in DirTrees
    /\ remote \in RemoteTrees(MaxNodes)
    /\ blacklist = <<>>
    /\ faulty \in Faults
    /\ pc = "apply"
    /\ watching = TRUE
    /\ ingest = "running"
    /\ \E p \in LocalPaths \ {LocalRoot}, h \in {<<"Create">>, <<"Modify">>} :
          /\ local[p].kind = "dir"
          /\ per_path = (p :> h)
    /\ Idle
    /\ fk = FoldIdle
    /\ fkinds = <<>>

NextEnsure == ApplyPath

SpecEnsure == InitEnsure /\ [][NextEnsure]_vars

\* The run against a tree that is edited while the full sync walks it.
InitRace ==
    /\ local \in TreesUpTo(MaxInitNodes, SeedNodes, EmptyLocal, LocalRoot)
    /\ remote = EmptyRemote
    /\ blacklist \in {<<>>, << <<"t">> >>}
    /\ faulty = {}
    /\ pc = "init"
    /\ watching = FALSE
    /\ ingest = "idle"
    /\ per_path = EmptyMap
    /\ Idle
    /\ fk = FoldIdle
    /\ fkinds = <<>>

NextRace ==
    \/ SyncStart \/ SyncReadDir \/ SyncEntry \/ SyncDone \/ StartWatch
    \/ IngestStep
    \/ DispatcherIter \/ ApplyPath
    \/ EarlyEdit \/ LocalModify

SpecRace == InitRace /\ [][NextRace]_vars

\* The fold loop alone, on every bounded history.
RECURSIVE HistoriesUpTo(_)
HistoriesUpTo(n) ==
    IF n = 0 THEN {<<>>}
    ELSE LET S == HistoriesUpTo(n - 1)
         IN S \cup {Append(h, k) : h \in {g \in S : Len(g) = n - 1}, k \in Kinds}

InitFold ==
    /\ local = EmptyLocal
    /\ remote = EmptyRemote
    /\ blacklist = <<>>
    /\ faulty = {}
    /\ pc = "apply"
    /\ watching = TRUE
    /\ ingest = "running"
    /\ per_path = EmptyMap
    /\ Idle
    /\ fk = FoldIdle
    /\ fkinds \in HistoriesUpTo(MaxKinds)

NextFold == FoldLoop \/ FoldEnd

SpecFold == InitFold /\ [][NextFold]_vars

\* The run whose notification stream may end, under the scheduling of the two
\* threads: each of them keeps taking its steps.
InitClose ==
    /\ local = [EmptyLocal EXCEPT ![LocalRoot \o <<"a">>] = FileNode(1, 33188)]
    /\ remote = EmptyRemote
    /\ blacklist = <<>>
    /\ faulty = {}
    /\ pc = "init"
    /\ watching = FALSE
    /\ ingest = "idle"
    /\ per_path = EmptyMap
    /\ Idle
    /\ fk = FoldIdle
    /\ fkinds = <<>>

NextClose == Next \/ SkipSync \/ WatchClose \/ IngestReturn

FairSpec ==
    /\ InitClose
    /\ [][NextClose]_vars
    /\ WF_vars(SyncStart \/ SyncReadDir \/ SyncEntry \/ SyncDone \/ StartWatch)
    /\ WF_vars(DispatcherIter)
    /\ WF_vars(ApplyPath)
    /\ WF_vars(IngestStep)
    /\ WF_vars(IngestReturn)

\* ==================================================================== claims
Actionable == {"Create", "Modify", "Remove"}
Mutations == {"mkdir", "create", "write", "setstat", "unlink", "rmdir"}

\* The remote counterpart of a local path below the root, and back.
RemoteOf(path) == join(RemoteRoot, rel(path).val)
LocalOf(rp) == LocalRoot \o SubSeq(rp, Len(RemoteRoot) + 1, Len(rp))

\* The Intent the last-relevant-action-wins rule gives a history.
Expected(kinds) ==
    LET idx == {i \in 1..Len(kinds) : kinds[i] \in Actionable}
    IN IF idx = {} THEN "Nothing"
       ELSE LET m == CHOOSE i \in idx : \A j \in idx : j <= i
            IN IF kinds[m] = "Remove" THEN "Delete" ELSE "Transfer"

\* C1: once the fold loop of process_events has run over a path's history, the
\* one action it hands on is Delete when the last Created/Modified/Removed kind
\* is Removed, Transfer when it is Created or Modified, and none when the
\* history holds no such kind.
C1_FoldLastActionableWins ==
    fk.final # "Pending" => fk.final = Expected(fkinds)

C1_Witness ==
    /\ fkinds = <<"Create", "Modify", "Modify">>
    /\ fk.final = "Transfer"
    /\ fk.actions = <<"Transfer">>

\* Everything emitted has been reduced and applied.
Quiescent == wq = <<>> /\ mq = <<>> /\ events = <<>> /\ pc = "loop"

AppliedTo(f) == {i \in 1..Len(applied) : applied[i].path = f}

\* C2: when the watch primitive has emitted exactly Modified(f), Removed(f),
\* Created(f) for a path f that is not blacklisted and is a regular file in
\* the end, with no debounce tick
\* between the first and the last emission, then once everything is reconciled
\* the Dispatcher has applied exactly one Intent to f, a successful Transfer,
\* and the remote file holds the local content.
C2_EditorSaveOneTransfer ==
    \A f \in LocalPaths :
        ( /\ emitted = <<Event("Modify", f), Event("Remove", f), Event("Create", f)>>
          /\ ~is_blacklisted(f)
          /\ local[f].kind = "file"
          /\ window # "split"
          /\ Quiescent )
        => /\ Cardinality(AppliedTo(f)) = 1
           /\ \A i \in AppliedTo(f) : applied[i].intent = "Transfer" /\ applied[i].ok
           /\ remote[RemoteOf(f)].kind = "file"
           /\ remote[RemoteOf(f)].content = local[f].content

\* C3: after an error while applying one path's Intent, the Dispatcher is still
\* in its loop.
C3_DispatcherSurvivesError ==
    \A i \in 1..Len(applied) : ~applied[i].ok => pc \in {"loop", "apply"}

\* C4: once the tick in which the Intent of one path failed is over, every
\* other path that was still to be applied in that tick (and is not
\* blacklisted) has had its Intent applied.
C4_OtherPathsStillApplied ==
    \A i \in 1..Len(applied) :
        (~applied[i].ok /\ pc # "apply")
        => \A q \in applied[i].rest :
              ~is_blacklisted(q) => \E j \in (i + 1)..Len(applied) : applied[j].path = q

\* C5: once file_event_receiver has returned, the Dispatcher eventually leaves
\* its loop and run returns.
C5_DispatcherLeavesLoop == (ingest = "done") ~> (pc = "returned")

\* C6: no remote mutation (of the full sync, or of an Intent) is issued on a
\* remote path whose local counterpart is_blacklisted excludes.
C6_NoMutationOnBlacklisted ==
    \A o \in ops : o.op \in Mutations => ~is_blacklisted(LocalOf(o.path))

\* A local path is excluded when it, or a directory above it below the local
\* root, is blacklisted.
Excluded(lp) ==
    \E k \in (Len(LocalRoot) + 1)..Len(lp) : is_blacklisted(SubSeq(lp, 1, k))

\* C7: from an empty remote root and with no failure, the full sync of a static
\* tree ends without error, and once transfer_all has returned the remote tree
\* holds exactly the regular files (same content, mode = the lower 9 bits of
\* the local mode) and exactly the directories of the local tree that the
\* blacklist does not exclude, and no remote operation was attempted at or
\* under an excluded path.
C7_FullSyncMirrors ==
    /\ (faulty = {} /\ pc \in {"init", "sync", "start", "returned"}) => outcome # "sync_err"
    /\ (faulty = {} /\ pc = "start") =>
          /\ \A s \in RelPaths :
                LET lp == LocalRoot \o s
                    rp == RemoteRoot \o s
                IN CASE local[lp].kind = "file" /\ ~Excluded(lp) ->
                            remote[rp] = FileNode(local[lp].content, local[lp].mode % 512)
                     [] local[lp].kind = "dir" /\ ~Excluded(lp) -> remote[rp].kind = "dir"
                     [] OTHER -> remote[rp].kind = "none"
          /\ \A o \in ops : ~Excluded(LocalOf(o.path))

C7_Witness ==
    /\ pc = "start" /\ faulty = {}
    /\ blacklist = << <<"t">> >>
    /\ local[LocalRoot \o <<"a">>].kind = "file"
    /\ local[LocalRoot \o <<"t", "a">>].kind = "file"
    /\ remote[RemoteRoot \o <<"a">>].kind = "file"
    /\ remote[RemoteRoot \o <<"t">>].kind = "none"

\* The last Intent applied, and the remote tree it was applied to.
LastApplied == applied[Len(applied)]
FsOf(image) ==
    [q \in RemotePaths |->
        IF \E e \in image : e[1] = q THEN (CHOOSE e \in image : e[1] = q)[2] ELSE Absent]
ExistedBefore(rec, rp) == \E e \in rec.before : e[1] = rp
Fresh(fs) == [fs |-> fs, log |-> {}]

\* C8: after a Transfer has been applied to a local regular file, the remote
\* file has the local content and the lower 9 bits of the local mode, and a
\* second Transfer of the unchanged file succeeds and leaves the remote tree
\* as it is; a Delete applied to a remote path that is absent succeeds and
\* leaves the remote tree unchanged, and so does a second one.
C8_ApplyIdempotent ==
    applied # <<>> =>
        LET rec == LastApplied
            rp == RemoteOf(rec.path)
        IN /\ (rec.intent = "Transfer" /\ rec.ok /\ local[rec.path].kind = "file") =>
                 LET again == transfer_element(Fresh(remote), rec.path)
                 IN /\ remote[rp] = FileNode(local[rec.path].content,
                                             local[rec.path].mode % 512)
                    /\ again.ok
                    /\ again.st.fs = remote
           /\ (rec.intent = "Delete" /\ ~ExistedBefore(rec, rp)) =>
                 LET again == delete_element(Fresh(remote), rec.path)
                 IN /\ rec.ok
                    /\ Image(remote) = rec.before
                    /\ again.ok
                    /\ again.st.fs = remote

C8_Witness ==
    /\ applied # <<>>
    /\ LastApplied.intent = "Transfer" /\ LastApplied.ok
    /\ local[LastApplied.path].kind = "file"
    /\ Len(LastApplied.path) = Len(LocalRoot) + 2
    /\ ~ExistedBefore(LastApplied, Parent(RemoteOf(LastApplied.path)))

\* C9: after delete_element has run on a path (not blacklisted), neither its
\* remote counterpart nor anything below it exists remotely.
C9_RecursiveDeleteLeavesNothing ==
    applied # <<>> =>
        LET rec == LastApplied
            rp == RemoteOf(rec.path)
        IN rec.intent = "Delete" =>
              \A q \in RemotePaths : starts_with(q, rp) => remote[q].kind = "none"

C9_Witness ==
    /\ applied # <<>>
    /\ LastApplied.intent = "Delete"
    /\ LET rp == RemoteOf(LastApplied.path)
       IN /\ \E e \in LastApplied.before : e[1] = rp /\ e[2].kind = "dir"
          /\ \E e \in LastApplied.before : Parent(e[1]) = rp /\ e[2].kind = "file"
          /\ \E e \in LastApplied.before : Parent(e[1]) = rp /\ e[2].kind = "dir"
          /\ remote[rp].kind = "none"

\* C10: a Transfer applied to a path whose local stat fails returns without
\* error, issues no mkdir, create, write or setstat, leaves nothing at or below
\* the remote counterpart, and does to the remote tree exactly what
\* delete_element does, operation for operation.
C10_TransferOfMissingIsDelete ==
    applied # <<>> =>
        LET rec == LastApplied
            rp == RemoteOf(rec.path)
        IN (rec.intent = "Transfer" /\ local[rec.path].kind = "none") =>
              LET del == delete_element(Fresh(FsOf(rec.before)), rec.path)
              IN /\ rec.ok
                 /\ \A o \in ops : o.op \notin {"mkdir", "create", "write", "setstat"}
                 /\ \A q \in RemotePaths : starts_with(q, rp) => remote[q].kind = "none"
                 /\ \A e \in rec.before : ~starts_with(e[1], rp) => e \in Image(remote)
                 /\ Image(remote) \subseteq rec.before
                 /\ del.ok /\ del.st.fs = remote /\ del.st.log = ops

C10_Witness ==
    /\ applied # <<>>
    /\ LastApplied.intent = "Transfer" /\ LastApplied.ok
    /\ local[LastApplied.path].kind = "none"
    /\ \E e \in LastApplied.before :
          Parent(e[1]) = RemoteOf(LastApplied.path)
    /\ remote[RemoteOf(LastApplied.path)].kind = "none"

Prefix(rp, k) == SubSeq(rp, 1, k)
Blocked(fs, rp, k) ==
    /\ ~Exists(fs, Prefix(rp, k))
    /\ \/ Prefix(rp, k) \in faulty
       \/ k > 1 /\ fs[Prefix(rp, k - 1)].kind = "file"
FirstBlocked(fs, rp) ==
    LET B == {k \in 1..Len(rp) : Blocked(fs, rp, k)}
    IN IF B = {} THEN 0 ELSE CHOOSE k \in B : \A j \in B : k <= j

\* C12: ensure_remote_dir, called on a remote path for a tree fs, issues a
\* mkdir for each prefix in turn up to the first one that neither can be
\* created nor exists; it fails exactly when there is such a prefix, and then
\* nothing is attempted on a longer prefix; otherwise it succeeds, every
\* prefix exists afterwards, and a chain that was complete is left unchanged.
C12_EnsureRemoteDir ==
    (applied # <<>> /\ LastApplied.intent = "Transfer"
        /\ local[LastApplied.path].kind = "dir")
    => LET rec == LastApplied
           rp == RemoteOf(rec.path)
           fs == FsOf(rec.before)
           b == FirstBlocked(fs, rp)
           last == IF b = 0 THEN Len(rp) ELSE b
       IN /\ rec.ok <=> b = 0
          /\ \A k \in 1..last : [op |-> "mkdir", path |-> Prefix(rp, k)] \in ops
          /\ \A k \in 1..Len(rp) :
                k > last => \A o \in ops : o.path # Prefix(rp, k)
          /\ \A k \in 1..Len(rp) :
                (k < last \/ rec.ok) => Exists(remote, Prefix(rp, k))
          /\ ~rec.ok => ~Exists(remote, Prefix(rp, b))
          /\ (\A k \in 1..Len(rp) : Exists(fs, Prefix(rp, k)))
                => rec.ok /\ remote = fs

\* A walk that met an existing file, went on, and failed one component later
\* with a third component never attempted.
C12_Witness ==
    /\ applied # <<>> /\ LastApplied.intent = "Transfer" /\ ~LastApplied.ok
    /\ local[LastApplied.path].kind = "dir"
    /\ Len(RemoteOf(LastApplied.path)) = Len(RemoteRoot) + 3
    /\ FirstBlocked(FsOf(LastApplied.before), RemoteOf(LastApplied.path)) = Len(RemoteRoot) + 2
    /\ FsOf(LastApplied.before)[Prefix(RemoteOf(LastApplied.path), Len(RemoteRoot) + 1)].kind = "file"

\* C13: once a local read (read_dir, metadata) has failed in transfer_all, the
\* full sync has stopped and run has returned the error: the step that fails
\* and every later step issue no remote operation, the watcher and the
\* ingestion thread are never started and no Intent is ever applied.
C13_SyncReadFailureAborts ==
    [][outcome' = "sync_err"
        => /\ remote' = remote /\ ops' = ops
           /\ pc' = "returned"
           /\ ~watching' /\ ingest' = "idle"
           /\ applied' = <<>> /\ per_path' = EmptyMap]_vars

\* The walk had uploaded a file when a read failed.
C13_Witness ==
    /\ outcome = "sync_err" /\ pc = "returned"
    /\ \E o \in ops : o.op = "create"
    /\ ~watching

\* C19: when the Dispatcher is idle with nothing pending, every local regular
\* file the blacklist does not exclude is mirrored remotely with its content,
\* and no remote file is left whose local counterpart is gone, also for the
\* paths edited after transfer_all began.
C19_NoChangeMissed ==
    (Quiescent /\ outcome = "none")
    => \A s \in RelPaths :
          LET lp == LocalRoot \o s
              rp == RemoteRoot \o s
          IN ~Excluded(lp)
             => /\ local[lp].kind = "file"
                   => remote[rp].kind = "file" /\ remote[rp].content = local[lp].content
                /\ local[lp].kind = "none" => remote[rp].kind # "file"

\* C14: remote operations are issued only by steps of run's own thread, in the
\* full sync or while it applies one path's Intent of the current tick, one
\* Intent per step; a step of the ingestion thread issues none; and no tick
\* begins while a path of the previous tick is still to be applied.
C14_SingleRemoteIssuer ==
    [][/\ (remote' # remote \/ ops' # ops)
           => /\ pc \in {"sync", "apply"}
              /\ UNCHANGED <<wq, mq, ingest>>
              /\ pc = "apply" => Len(applied') = Len(applied) + 1
       /\ (wq' # wq /\ Len(wq') < Len(wq)) => UNCHANGED <<remote, ops, applied>>
       /\ last_tick' # last_tick => pc = "loop" /\ DOMAIN per_path = {}
       /\ (pc = "apply" /\ DOMAIN per_path # {}) => DOMAIN per_path' \subseteq DOMAIN per_path
      ]_vars

\* Between the two Intents of one tick, with a notification waiting for the
\* ingestion thread.
C14_Witness ==
    /\ pc = "apply"
    /\ applied # <<>> /\ ops # {}
    /\ DOMAIN per_path # {}
    /\ DOMAIN per_path = LastApplied.rest
    /\ wq # <<>>

\* C15: an event that the ingestion thread sent while a tick was being
\* reconciled is no longer waiting on the hand-off channel once the next tick
\* has been taken: it was received into the log that tick reduced.
C15_MidTickEventsInNextTick ==
    \A i \in 1..Len(mq) : mq[i].tick \in {-1, last_tick}

\* The Created/Modified/Removed kinds a sequence of events holds for path f.
KindsFor(evs, f) ==
    LET sel == SelectSeq(evs, LAMBDA e :
                   /\ e.kind \in Actionable
                   /\ \E j \in 1..Len(e.paths) : e.paths[j] = f)
    IN [i \in 1..Len(sel) |-> sel[i].kind]

\* The kinds process_events has taken for path f in the first n applications.
RECURSIVE TakenUpTo(_, _)
TakenUpTo(f, n) ==
    IF n = 0 THEN <<>>
    ELSE TakenUpTo(f, n - 1) \o (IF applied[n].path = f THEN applied[n].kinds ELSE <<>>)

\* The paths named anywhere: by an emitted event, a waiting event, the fan-out
\* map or an application.  For any other path both sides below are empty.
PathsIn(evs) == UNION {{evs[i].paths[j] : j \in 1..Len(evs[i].paths)} : i \in 1..Len(evs)}
Touched ==
    PathsIn(emitted) \cup PathsIn(wq) \cup PathsIn(mq) \cup PathsIn(events)
        \cup DOMAIN per_path \cup {applied[i].path : i \in 1..Len(applied)}

\* C16: while the Dispatcher runs, for every path the kinds process_events
\* has taken for it tick after tick, followed by those still in the fan-out
\* map, in the pending log, on the hand-off channel and on the watcher's
\* channel, are the Created/Modified/Removed kinds the watch primitive emitted
\* for that path, in emission order.
C16_PerPathOrderPreserved ==
    pc \in {"loop", "apply"}
    => \A f \in Touched :
          TakenUpTo(f, Len(applied))
              \o (IF f \in DOMAIN per_path THEN per_path[f] ELSE <<>>)
              \o KindsFor(events, f) \o KindsFor(mq, f) \o KindsFor(wq, f)
          = KindsFor(emitted, f)

\* Three kinds of one path, taken in two ticks and all applied.
C16_Witness ==
    /\ Quiescent
    /\ \E f \in LocalPaths :
          /\ ~is_blacklisted(f)
          /\ Cardinality(AppliedTo(f)) = 2
          /\ TakenUpTo(f, Len(applied)) = <<"Create", "Modify", "Remove">>
          /\ KindsFor(emitted, f) = <<"Create", "Modify", "Remove">>

\* C17: the hand-off channel has a capacity that the production of events
\* cannot exceed: it never holds as many events as the watch primitive is
\* allowed to produce in a run, MaxEdits of them.
C17_HandoffQueueBounded == Len(mq) < MaxEdits

\* C18: is_blacklisted holds for every path below a path it holds for: a path
\* below a blacklisted one is skipped by process_events like the blacklisted
\* path itself, and no file is created remotely for it.
C18_BlacklistClosedUnderDescendants ==
    /\ \A i \in 1..Len(applied) :
          Excluded(applied[i].path) => applied[i].intent = "Skipped"
    /\ \A o \in ops : o.op = "create" => ~Excluded(LocalOf(o.path))

\* C20: the step that applies a Transfer to a path that is a regular file
\* locally, with the remote parent directories in place, succeeds whatever is
\* at the remote path, a directory included: the Dispatcher goes on and the
\* remote path is a regular file with the local content.
C20_FileReplacesRemoteDir ==
    [][Len(applied') = Len(applied) + 1
        => LET rec == applied'[Len(applied')]
               rp == RemoteOf(rec.path)
           IN ( /\ rec.intent = "Transfer"
                /\ rel(rec.path).ok
                /\ local[rec.path].kind = "file"
                /\ \A k \in 1..(Len(rp) - 1) : remote[Prefix(rp, k)].kind = "dir" )
              => /\ rec.ok
                 /\ pc' # "returned"
                 /\ remote'[rp].kind = "file"
                 /\ remote'[rp].content = local[rec.path].content]_vars

====
